---- MODULE Spec2Model ----
(***************************************************************************)
(* Model of the Azure AD B2C IEF Terraform provider: the key-container     *)
(* reconciler (PolicyKeyResource: Create / Read / Update / Delete,         *)
(* uploadOrGenerate, sanitizeWriteOnlyFields, sanitizeLegacyState), the    *)
(* policy-document reconciler (PolicyResource) and its functions           *)
(* injectAppSettings and getPolicyId.                                      *)
(*                                                                         *)
(* Every handler is one atomic action.  The answers of the Graph API are   *)
(* inputs of the handlers and are drawn from small sets.                   *)
(***************************************************************************)
EXTENDS Integers, Sequences, FiniteSets, TLC

VARIABLES
    managed,   \* TRUE while the framework holds a persisted snapshot
    state,     \* the persisted PolicyKeyModel (EmptyModel while not managed)
    op,        \* the last handler that ran: its inputs and what it returned
    calls,     \* the Graph requests the last handler issued, in order
    repeat,    \* number of consecutive Updates given the same configuration
    resps,     \* the answers to the requests in calls, in order
    remote,    \* ids of the policy documents the directory holds
    fn         \* input and output of a pure function under test

vars == <<managed, state, op, calls, repeat, resps, remote, fn>>

----------------------------------------------------------------------------
(* Bounds of the model *)

MaxVersion == 2     \* value_version ranges up to MaxVersion
NegDepth == 2       \* ... and down to -NegDepth
MaxRepeat == 2      \* the repeat counter saturates here

(* net/http status codes the handlers compare against *)
StatusOK == 200
StatusCreated == 201
StatusNoContent == 204

----------------------------------------------------------------------------
(* terraform-plugin-framework attribute values: a null flag and a value;   *)
(* the value of a null attribute reads as the zero value.                  *)

StringNull == [null |-> TRUE, v |-> ""]
StringValue(s) == [null |-> FALSE, v |-> s]
Int64Null == [null |-> TRUE, v |-> 0]
Int64Value(n) == [null |-> FALSE, v |-> n]
IsNull(a) == a.null
ValueString(a) == a.v
ValueInt64(a) == a.v

(* PolicyKeyUpload / PolicyKeyGenerate behind a pointer: nil or a block *)
NilUpload == [nil |-> TRUE, Value |-> StringNull, ValueVersion |-> Int64Null]
PolicyKeyUpload(value, version) ==
    [nil |-> FALSE, Value |-> value, ValueVersion |-> version]
NilGenerate == [nil |-> TRUE, Type |-> StringNull]
PolicyKeyGenerate(type) == [nil |-> FALSE, Type |-> type]

PolicyKeyModel(id, name, usage, upload, generate) ==
    [ID |-> id, Name |-> name, Usage |-> usage,
     Upload |-> upload, Generate |-> generate]

\* PolicyKeyModel{}
EmptyModel == PolicyKeyModel(StringNull, StringNull, StringNull,
                             NilUpload, NilGenerate)

----------------------------------------------------------------------------
(* Input domains *)

Versions == {Int64Null} \cup {Int64Value(n) : n \in (0 - NegDepth)..MaxVersion}
Secrets == {StringNull, StringValue("s1"), StringValue("s2")}
Usages == {StringValue("sig"), StringValue("enc")}
Names == {StringValue("n1")}
KeyTypes == {StringNull, StringValue("RSA")}
Ids == {"k1", "k2"}

UploadBlocks == {PolicyKeyUpload(s, n) : s \in Secrets, n \in Versions}
GenerateBlocks == {PolicyKeyGenerate(t) : t \in KeyTypes}

(* Configurations that pass ConfigValidators (exactly one of generate and  *)
(* upload).  id is Computed, so it is null in every configuration.         *)
ConfigValidators(c) == c.Upload.nil # c.Generate.nil
Configs ==
    {c \in {PolicyKeyModel(StringNull, n, u, up, g) :
               n \in Names, u \in Usages,
               up \in UploadBlocks \cup {NilUpload},
               g \in GenerateBlocks \cup {NilGenerate}} : ConfigValidators(c)}

(* Snapshots written by the provider release that still stored the secret  *)
LegacyStates ==
    {PolicyKeyModel(StringValue("k1"), StringValue("n1"), StringValue("sig"),
                    PolicyKeyUpload(StringValue("s1"), n), NilGenerate) :
        n \in {Int64Null, Int64Value(1)}}

(* Graph answers: a transport error, or a status and a body.  Of a body    *)
(* the handlers use: does it parse as JSON, its "id", and does its text    *)
(* contain the error code AADB2C90073.                                     *)
Body(json, id, code) == [json |-> json, id |-> id, notFound |-> code]
TransportError == [err |-> TRUE, StatusCode |-> 0, body |-> Body(FALSE, "", FALSE)]
Response(status, body) == [err |-> FALSE, StatusCode |-> status, body |-> body]

CreateResponses ==
    {TransportError,
     Response(400, Body(TRUE, "", FALSE)),
     Response(StatusOK, Body(TRUE, "k1", FALSE)),
     Response(StatusCreated, Body(FALSE, "", FALSE)),
     Response(StatusCreated, Body(TRUE, "", FALSE))}
    \cup {Response(StatusCreated, Body(TRUE, i, FALSE)) : i \in Ids}
ProvisionResponses ==
    {TransportError,
     Response(StatusOK, Body(TRUE, "", FALSE)),
     Response(400, Body(TRUE, "", FALSE))}
GetResponses ==
    {TransportError,
     Response(StatusOK, Body(TRUE, "k1", FALSE)),
     Response(StatusOK, Body(FALSE, "", FALSE)),
     Response(404, Body(TRUE, "", TRUE)),
     Response(400, Body(TRUE, "", FALSE)),
     Response(500, Body(FALSE, "", FALSE))}
DeleteResponses ==
    {TransportError,
     Response(StatusNoContent, Body(FALSE, "", FALSE)),
     Response(StatusOK, Body(TRUE, "", FALSE)),
     Response(404, Body(TRUE, "", TRUE))}

----------------------------------------------------------------------------
(* Errors, named by the message the code builds *)

NoError == "nil"
ErrVersion == "value_version must be -1 or >= 0"
ErrNullValue == "upload.value cannot be null when upload block is specified"
ErrNoMethod == "No provisioning method specified OR an invalid block was given"
ErrTransport == "transport error"
ErrStatus == "unexpected status"
ErrParse == "Error parsing graph response!"

(* A Graph request as the handlers build it *)
GraphCall(kind, id, name, use, kty, k) ==
    [kind |-> kind, id |-> id, name |-> name, use |-> use, kty |-> kty, k |-> k]

----------------------------------------------------------------------------
(* Secret sanitisation *)

\* faulty variant: the block is handed on as it came
sanitizeWriteOnlyFields_keep(data) == data

\* faulty variant: the rebuilt block forgets the version marker
sanitizeWriteOnlyFields_dropVersion(data) ==
    IF ~data.Upload.nil
    THEN [data EXCEPT !.Upload = PolicyKeyUpload(StringNull, Int64Null)]
    ELSE data

\* faulty variant: the value is nulled only next to a null version
sanitizeWriteOnlyFields_versionedKeep(data) ==
    IF ~data.Upload.nil /\ IsNull(data.Upload.ValueVersion)
    THEN [data EXCEPT
            !.Upload = PolicyKeyUpload(StringNull, data.Upload.ValueVersion)]
    ELSE data

(* sanitizeWriteOnlyFields: a present upload block is replaced by one with *)
(* the same ValueVersion and a null Value.                                 *)
sanitizeWriteOnlyFields(data) ==
    IF ~data.Upload.nil
    THEN [data EXCEPT
            !.Upload = PolicyKeyUpload(StringNull, data.Upload.ValueVersion)]
    ELSE data

(* sanitizeLegacyState: a non-null upload.value read from state is nulled  *)
sanitizeLegacyState(data) ==
    IF ~data.Upload.nil /\ ~IsNull(data.Upload.Value)
    THEN [data EXCEPT !.Upload.Value = StringNull]
    ELSE data

----------------------------------------------------------------------------
(* uploadOrGenerate *)

\* faulty variant: the version marker is not validated
versionInvalid_off(configData) == FALSE

(* the defensive check on value_version *)
versionInvalid(configData) ==
    /\ ~IsNull(configData.Upload.ValueVersion)
    /\ LET version == ValueInt64(configData.Upload.ValueVersion)
       IN  version < 0 /\ version # -1

\* faulty variant: every update uploads
shouldUpload_always(configData, stateData) == TRUE

\* faulty variant: a changed version no longer triggers an upload
shouldUpload_noVersionChange(configData, stateData) ==
    \/ IsNull(configData.Upload.ValueVersion)
    \/ ValueInt64(configData.Upload.ValueVersion) = -1

\* faulty variant: a null version is compared like a number
shouldUpload_noNull(configData, stateData) ==
    \/ (~IsNull(configData.Upload.ValueVersion)
          /\ ValueInt64(configData.Upload.ValueVersion) = -1)
    \/ /\ ValueInt64(configData.Upload.ValueVersion) >= 0
       /\ ~stateData.Upload.nil
       /\ ValueInt64(configData.Upload.ValueVersion)
             # ValueInt64(stateData.Upload.ValueVersion)

\* faulty variant: -1 is compared with the state like any other version
shouldUpload_noSentinel(configData, stateData) ==
    \/ IsNull(configData.Upload.ValueVersion)
    \/ /\ ValueInt64(configData.Upload.ValueVersion) >= -1
       /\ ~stateData.Upload.nil
       /\ ValueInt64(configData.Upload.ValueVersion)
             # ValueInt64(stateData.Upload.ValueVersion)

(* shouldUpload: null version, or -1, or a non-negative version that       *)
(* differs from the version of the upload block in state.                  *)
shouldUpload(configData, stateData) ==
    \/ IsNull(configData.Upload.ValueVersion)
    \/ ValueInt64(configData.Upload.ValueVersion) = -1
    \/ /\ ValueInt64(configData.Upload.ValueVersion) >= 0
       /\ ~stateData.Upload.nil
       /\ ValueInt64(configData.Upload.ValueVersion)
             # ValueInt64(stateData.Upload.ValueVersion)

(* the POST at the end of uploadOrGenerate and the reading of its answer   *)
postProvision(call, graphResp) ==
    [err   |-> IF graphResp.err THEN ErrTransport
               ELSE IF graphResp.StatusCode # StatusOK THEN ErrStatus
               ELSE NoError,
     calls |-> <<call>>]

generateKeyCall(data) ==
    GraphCall("generateKey", ValueString(data.ID), "",
              ValueString(data.Usage), ValueString(data.Generate.Type), "")

uploadSecretCall(data, configData) ==
    GraphCall("uploadSecret", ValueString(data.ID), "",
              ValueString(data.Usage), "", ValueString(configData.Upload.Value))

\* faulty variant: a key is generated only when state has no generate block yet
uploadOrGenerate_generateOnce(data, configData, stateData, graphResp) ==
    IF ~data.Generate.nil THEN
        IF stateData.Generate.nil
        THEN postProvision(generateKeyCall(data), graphResp)
        ELSE [err |-> NoError, calls |-> <<>>]
    ELSE IF ~data.Upload.nil THEN
        IF versionInvalid(configData)
        THEN [err |-> ErrVersion, calls |-> <<>>]
        ELSE IF shouldUpload(configData, stateData)
        THEN IF IsNull(configData.Upload.Value)
             THEN [err |-> ErrNullValue, calls |-> <<>>]
             ELSE postProvision(uploadSecretCall(data, configData), graphResp)
        ELSE [err |-> NoError, calls |-> <<>>]
    ELSE [err |-> ErrNoMethod, calls |-> <<>>]

\* faulty variant: a snapshot without a block is passed as nothing to do
uploadOrGenerate_silentNoMethod(data, configData, stateData, graphResp) ==
    IF ~data.Generate.nil THEN
        postProvision(generateKeyCall(data), graphResp)
    ELSE IF ~data.Upload.nil THEN
        IF versionInvalid(configData)
        THEN [err |-> ErrVersion, calls |-> <<>>]
        ELSE IF shouldUpload(configData, stateData)
        THEN IF IsNull(configData.Upload.Value)
             THEN [err |-> ErrNullValue, calls |-> <<>>]
             ELSE postProvision(uploadSecretCall(data, configData), graphResp)
        ELSE [err |-> NoError, calls |-> <<>>]
    ELSE [err |-> NoError, calls |-> <<>>]

(* uploadOrGenerate: the error it returns and the requests it issued       *)
uploadOrGenerate(data, configData, stateData, graphResp) ==
    IF ~data.Generate.nil THEN
        postProvision(generateKeyCall(data), graphResp)
    ELSE IF ~data.Upload.nil THEN
        IF versionInvalid(configData)
        THEN [err |-> ErrVersion, calls |-> <<>>]
        ELSE IF shouldUpload(configData, stateData)
        THEN IF IsNull(configData.Upload.Value)
             THEN [err |-> ErrNullValue, calls |-> <<>>]
             ELSE postProvision(uploadSecretCall(data, configData), graphResp)
        ELSE [err |-> NoError, calls |-> <<>>]
    ELSE [err |-> ErrNoMethod, calls |-> <<>>]

----------------------------------------------------------------------------
(* The handlers.  A handler leaves in op: its name, the configuration and  *)
(* the state it was given, the error diagnostics it added, and what it did *)
(* with the response state: State.Set (set, with the snapshot),            *)
(* State.RemoveResource (removed) or nothing.                              *)

Outcome(name, config, prior, diags, set, snapshot, removed) ==
    [name |-> name, config |-> config, prior |-> prior, diags |-> diags,
     set |-> set, snapshot |-> snapshot, removed |-> removed]

NoOp == Outcome("none", EmptyModel, EmptyModel, <<>>, FALSE, EmptyModel, FALSE)
NoFn == [name |-> "none"]

Init ==
    /\ \/ managed = FALSE /\ state = EmptyModel
       \/ managed = TRUE /\ state \in LegacyStates
    /\ op = NoOp
    /\ calls = <<>>
    /\ repeat = 0
    /\ resps = <<>>
    /\ remote = {}
    /\ fn = NoFn

\* faulty variant: the status of the answer is not looked at
createKeysetError_anyStatus(createResp) ==
    IF createResp.err THEN ErrTransport
    ELSE IF ~createResp.body.json \/ createResp.body.id = "" THEN ErrParse
    ELSE NoError

(* Create's reading of the answer to POST keySets: a transport error, a    *)
(* status other than 201, or a body without an id end the handler.         *)
createKeysetError(createResp) ==
    IF createResp.err THEN ErrTransport
    ELSE IF createResp.StatusCode # StatusCreated THEN ErrStatus
    ELSE IF ~createResp.body.json \/ createResp.body.id = "" THEN ErrParse
    ELSE NoError

\* faulty variant: a failed provisioning step ends the handler before State.Set
Create_abortOnProvisionError ==
    /\ ~managed
    /\ \E config \in Configs, createResp \in CreateResponses :
         LET data0 == config
             createCall == GraphCall("createContainer", "",
                               ValueString(data0.Name),
                               ValueString(data0.Usage), "", "")
             failed(e) ==
                 /\ op' = Outcome("Create", config, state, <<e>>,
                                  FALSE, EmptyModel, FALSE)
                 /\ calls' = <<createCall>>
                 /\ resps' = <<createResp>>
                 /\ UNCHANGED <<managed, state>>
         IN  IF createKeysetError(createResp) # NoError
             THEN failed(createKeysetError(createResp))
             ELSE \E graphResp \in ProvisionResponses :
                    LET data == [data0 EXCEPT
                                   !.ID = StringValue(createResp.body.id)]
                        r == uploadOrGenerate(data, data, EmptyModel, graphResp)
                        saved == sanitizeWriteOnlyFields(data)
                    IN  /\ op' = Outcome("Create", config, state,
                                     IF r.err # NoError THEN <<r.err>> ELSE <<>>,
                                     r.err = NoError,
                                     IF r.err = NoError THEN saved ELSE EmptyModel,
                                     FALSE)
                        /\ calls' = <<createCall>> \o r.calls
                        /\ resps' = <<createResp>>
                                     \o (IF r.calls = <<>> THEN <<>>
                                         ELSE <<graphResp>>)
                        /\ managed' = (r.err = NoError)
                        /\ state' = IF r.err = NoError THEN saved ELSE EmptyModel
    /\ repeat' = 0
    /\ UNCHANGED <<fn, remote>>

(* Create: POST the key set, take the id of the answer, provision, and set *)
(* the sanitised data as state even when provisioning failed.              *)
Create ==
    /\ ~managed
    /\ \E config \in Configs, createResp \in CreateResponses :
         LET data0 == config
             createCall == GraphCall("createContainer", "",
                               ValueString(data0.Name),
                               ValueString(data0.Usage), "", "")
             failed(e) ==
                 /\ op' = Outcome("Create", config, state, <<e>>,
                                  FALSE, EmptyModel, FALSE)
                 /\ calls' = <<createCall>>
                 /\ resps' = <<createResp>>
                 /\ UNCHANGED <<managed, state>>
         IN  IF createKeysetError(createResp) # NoError
             THEN failed(createKeysetError(createResp))
             ELSE \E graphResp \in ProvisionResponses :
                    LET data == [data0 EXCEPT
                                   !.ID = StringValue(createResp.body.id)]
                        r == uploadOrGenerate(data, data, EmptyModel, graphResp)
                        saved == sanitizeWriteOnlyFields(data)
                    IN  /\ op' = Outcome("Create", config, state,
                                     IF r.err # NoError THEN <<r.err>> ELSE <<>>,
                                     TRUE, saved, FALSE)
                        /\ calls' = <<createCall>> \o r.calls
                        /\ resps' = <<createResp>>
                                     \o (IF r.calls = <<>> THEN <<>>
                                         ELSE <<graphResp>>)
                        /\ managed' = TRUE
                        /\ state' = saved
    /\ repeat' = 0
    /\ UNCHANGED <<fn, remote>>

\* faulty variant: the error code in the body is not looked for
keysetNotFound_off(graphResp) == FALSE

\* faulty variant: every status other than 200 counts as a key set gone
keysetNotFound_anyStatus(graphResp) == graphResp.StatusCode # StatusOK

(* Read's test for a key set that is gone: a status other than 200 with    *)
(* AADB2C90073 in the body.                                                *)
keysetNotFound(graphResp) ==
    graphResp.StatusCode # StatusOK /\ graphResp.body.notFound

\* faulty variant: the upload block is not carried over
preserveVersion_drop(data, currentState) ==
    [data EXCEPT !.Upload = NilUpload]

(* Read's merge of the version in state into data without an upload block  *)
preserveVersion(data, currentState) ==
    IF ~currentState.Upload.nil /\ data.Upload.nil
    THEN [data EXCEPT !.Upload =
            PolicyKeyUpload(StringNull, currentState.Upload.ValueVersion)]
    ELSE data

(* Read: GET the key set by the id in state.  AADB2C90073 in a non-200     *)
(* answer removes the resource; another non-200 adds an error and goes on; *)
(* a body that is no JSON is an error and nothing is set.                  *)
Read ==
    /\ managed
    /\ \E graphResp \in GetResponses :
         LET data == sanitizeLegacyState(state)
             getCall == GraphCall("getContainer", ValueString(data.ID),
                                  "", "", "", "")
             statusDiags == IF graphResp.StatusCode # StatusOK
                            THEN <<ErrStatus>> ELSE <<>>
             currentState == state
             merged == preserveVersion(data, currentState)
             saved == sanitizeWriteOnlyFields(merged)
         IN  /\ calls' = <<getCall>>
             /\ resps' = <<graphResp>>
             /\ IF graphResp.err
                THEN /\ op' = Outcome("Read", EmptyModel, state, <<ErrTransport>>,
                                      FALSE, EmptyModel, FALSE)
                     /\ UNCHANGED <<managed, state>>
                ELSE IF keysetNotFound(graphResp)
                THEN /\ op' = Outcome("Read", EmptyModel, state, <<>>,
                                      FALSE, EmptyModel, TRUE)
                     /\ managed' = FALSE
                     /\ state' = EmptyModel
                ELSE IF ~graphResp.body.json
                THEN /\ op' = Outcome("Read", EmptyModel, state,
                                      statusDiags \o <<ErrParse>>,
                                      FALSE, EmptyModel, FALSE)
                     /\ UNCHANGED <<managed, state>>
                ELSE /\ op' = Outcome("Read", EmptyModel, state, statusDiags,
                                      TRUE, saved, FALSE)
                     /\ managed' = TRUE
                     /\ state' = saved
    /\ repeat' = 0
    /\ UNCHANGED <<fn, remote>>

\* faulty variant: the upload block of the state wins over the configuration
rebuildState_fromState(configData, stateData) ==
    PolicyKeyModel(configData.ID, configData.Name, configData.Usage,
        IF ~stateData.Upload.nil
        THEN PolicyKeyUpload(StringNull, stateData.Upload.ValueVersion)
        ELSE IF ~configData.Upload.nil
        THEN PolicyKeyUpload(StringNull, configData.Upload.ValueVersion)
        ELSE NilUpload,
        IF ~configData.Generate.nil THEN configData.Generate ELSE NilGenerate)

(* Update's rebuilt state: id, name and usage of the configuration, its    *)
(* generate block, and the version of its upload block, or else of the     *)
(* upload block in state.                                                  *)
rebuildState(configData, stateData) ==
    PolicyKeyModel(configData.ID, configData.Name, configData.Usage,
        IF ~configData.Upload.nil
        THEN PolicyKeyUpload(StringNull, configData.Upload.ValueVersion)
        ELSE IF ~stateData.Upload.nil
        THEN PolicyKeyUpload(StringNull, stateData.Upload.ValueVersion)
        ELSE NilUpload,
        IF ~configData.Generate.nil THEN configData.Generate ELSE NilGenerate)

\* faulty variant: the state is rebuilt and set also after an error
Update_setOnError ==
    /\ managed
    /\ \E config \in Configs, graphResp \in ProvisionResponses :
         LET configData == config
             stateData == sanitizeLegacyState(state)
             r == uploadOrGenerate(configData, configData, stateData, graphResp)
             rebuilt == rebuildState(configData, stateData)
             saved == sanitizeWriteOnlyFields(rebuilt)
         IN  /\ calls' = r.calls
             /\ resps' = IF r.calls = <<>> THEN <<>> ELSE <<graphResp>>
             /\ repeat' = IF op.name = "Update" /\ op.config = config
                          THEN (IF repeat < MaxRepeat THEN repeat + 1 ELSE repeat)
                          ELSE 1
             /\ op' = Outcome("Update", config, state,
                              IF r.err # NoError THEN <<r.err>> ELSE <<>>,
                              TRUE, saved, FALSE)
             /\ managed' = TRUE
             /\ state' = saved
    /\ UNCHANGED <<fn, remote>>

(* Update: decide and provision from the configuration against the state;  *)
(* on an error nothing is set; otherwise the state is rebuilt from the     *)
(* configuration, with the version of the configuration's upload block.    *)
Update ==
    /\ managed
    /\ \E config \in Configs, graphResp \in ProvisionResponses :
         LET configData == config
             stateData == sanitizeLegacyState(state)
             r == uploadOrGenerate(configData, configData, stateData, graphResp)
             rebuilt == rebuildState(configData, stateData)
             saved == sanitizeWriteOnlyFields(rebuilt)
         IN  /\ calls' = r.calls
             /\ resps' = IF r.calls = <<>> THEN <<>> ELSE <<graphResp>>
             /\ repeat' = IF op.name = "Update" /\ op.config = config
                          THEN (IF repeat < MaxRepeat THEN repeat + 1 ELSE repeat)
                          ELSE 1
             /\ IF r.err # NoError
                THEN /\ op' = Outcome("Update", config, state, <<r.err>>,
                                      FALSE, EmptyModel, FALSE)
                     /\ UNCHANGED <<managed, state>>
                ELSE /\ op' = Outcome("Update", config, state, <<>>,
                                      TRUE, saved, FALSE)
                     /\ managed' = TRUE
                     /\ state' = saved
    /\ UNCHANGED <<fn, remote>>

(* Delete: DELETE the key set by the id in state; anything but 204 is an   *)
(* error.  Without an error the framework drops the resource from state.   *)
Delete ==
    /\ managed
    /\ \E graphResp \in DeleteResponses :
         LET data == sanitizeLegacyState(state)
             deleteCall == GraphCall("deleteContainer", ValueString(data.ID),
                                     "", "", "", "")
             diags == IF graphResp.err THEN <<ErrTransport>>
                      ELSE IF graphResp.StatusCode # StatusNoContent
                      THEN <<ErrStatus>> ELSE <<>>
         IN  /\ calls' = <<deleteCall>>
             /\ resps' = <<graphResp>>
             /\ op' = Outcome("Delete", EmptyModel, state, diags,
                              FALSE, EmptyModel, diags = <<>>)
             /\ managed' = (diags # <<>>)
             /\ state' = IF diags = <<>> THEN EmptyModel ELSE state
    /\ repeat' = 0
    /\ UNCHANGED <<fn, remote>>

Next == Create \/ Read \/ Update \/ Delete

Spec == Init /\ [][Next]_vars

----------------------------------------------------------------------------
(* sanitizeWriteOnlyFields as a function: any snapshot in, its result out  *)

Snapshots ==
    {PolicyKeyModel(i, n, u, up, g) :
        i \in {StringNull} \cup {StringValue(k) : k \in Ids},
        n \in Names, u \in Usages,
        up \in UploadBlocks \cup {NilUpload},
        g \in GenerateBlocks \cup {NilGenerate}}

SanitizeInit ==
    /\ managed = FALSE /\ state = EmptyModel /\ op = NoOp
    /\ calls = <<>> /\ repeat = 0 /\ resps = <<>> /\ remote = {}
    /\ fn \in {[name |-> "input", in |-> s, out |-> s] : s \in Snapshots}

Sanitize ==
    /\ fn.name = "input"
    /\ fn' = [name |-> "sanitizeWriteOnlyFields", in |-> fn.in,
              out |-> sanitizeWriteOnlyFields(fn.in)]
    /\ UNCHANGED <<managed, state, op, calls, repeat, resps, remote>>

SanitizeNext == Sanitize

SanitizeSpec == SanitizeInit /\ [][SanitizeNext]_vars

----------------------------------------------------------------------------
(* uploadOrGenerate as a function: any snapshot in, also one that the      *)
(* validators of the configuration would not let through                   *)

DecideInit ==
    /\ managed = FALSE /\ state = EmptyModel /\ op = NoOp
    /\ calls = <<>> /\ repeat = 0 /\ resps = <<>> /\ remote = {}
    /\ fn \in {[name |-> "snapshot",
                in |-> [data |-> d, stateData |-> st, graphResp |-> g],
                out |-> [err |-> NoError, calls |-> <<>>]] :
                  d \in Snapshots,
                  st \in {EmptyModel} \cup LegacyStates,
                  g \in ProvisionResponses}

Decide ==
    /\ fn.name = "snapshot"
    /\ fn' = [name |-> "uploadOrGenerate", in |-> fn.in,
              out |-> uploadOrGenerate(fn.in.data, fn.in.data,
                                       fn.in.stateData, fn.in.graphResp)]
    /\ UNCHANGED <<managed, state, op, calls, repeat, resps, remote>>

DecideNext == Decide

DecideSpec == DecideInit /\ [][DecideNext]_vars

----------------------------------------------------------------------------
(* injectAppSettings (policy documents).  A text is a sequence of pieces:  *)
(* a chunk of plain text that holds no brace, or one placeholder           *)
(* "{" keyword ":" name "}" with keyword and name spelled as sequences of  *)
(* characters.  The chunk "$1" is plain text in a template and a group     *)
(* reference in a replacement.                                             *)

MaxLen == 2         \* a template has up to MaxLen pieces
MaxKeys == 2        \* app_settings has up to MaxKeys entries

Chunk(text) ==
    [kind |-> "text", keyword |-> <<>>, name |-> <<>>, text |-> text]
Placeholder(keyword, name) ==
    [kind |-> "placeholder", keyword |-> keyword, name |-> name, text |-> ""]
GroupRef == Chunk("$1")

\* types.String holding a text: null, unknown or a value
SettingNull == [null |-> TRUE, unknown |-> FALSE, v |-> <<>>]
SettingUnknown == [null |-> FALSE, unknown |-> TRUE, v |-> <<>>]
SettingValue(t) == [null |-> FALSE, unknown |-> FALSE, v |-> t]
IsUnknown(a) == a.unknown

settings == <<"s", "e", "t", "t", "i", "n", "g", "s">>
Keywords == {settings, <<"S", "e", "t", "t", "i", "n", "g", "s">>}
PlaceholderNames == {<<"A">>, <<"a">>, <<"B">>, <<"A", "x", "B">>}
SettingKeys == {<<"A">>, <<"a">>, <<"B">>, <<"A", ".", "B">>}
Pieces ==
    {Chunk("x")} \cup
    {Placeholder(kw, n) : kw \in Keywords, n \in PlaceholderNames}
SettingValues ==
    {SettingNull, SettingUnknown, SettingValue(<<>>),
     SettingValue(<<Chunk("v")>>),
     SettingValue(<<Chunk("v"), GroupRef>>),
     SettingValue(<<Placeholder(settings, <<"B">>)>>)}
Templates == UNION {[1..n -> Pieces] : n \in 0..MaxLen}
AppSettings ==
    UNION {[D -> SettingValues] :
              D \in {E \in SUBSET SettingKeys : Cardinality(E) <= MaxKeys}}
\* the orders in which `range app_settings` can visit the keys
RangeOrders(app_settings) ==
    {o \in [1..Cardinality(DOMAIN app_settings) -> DOMAIN app_settings] :
        \A i, j \in DOMAIN o : o[i] = o[j] => i = j}

\* simple case folding of (?i)
Lower(c) ==
    CASE c = "A" -> "a" [] c = "B" -> "b" [] c = "S" -> "s" [] OTHER -> c
LowerSeq(s) == [i \in DOMAIN s |-> Lower(s[i])]

isNullOrEmpty(a) == IsUnknown(a) \/ IsNull(a) \/ <<>> = ValueString(a)

\* one character of the key, read as a regular expression under (?i)
atomMatches(p, c) == IF p = "." THEN TRUE ELSE Lower(p) = Lower(c)
\* (?i)\{settings:%s\} with the key k put in unquoted, against one piece
regexpMatches(k, piece) ==
    /\ piece.kind = "placeholder"
    /\ LowerSeq(piece.keyword) = settings
    /\ Len(piece.name) = Len(k)
    /\ \A i \in DOMAIN k : atomMatches(k[i], piece.name[i])

\* Regexp.Expand on a replacement: $1 names a group the pattern has not
Expand(repl) == SelectSeq(repl, LAMBDA piece : piece # GroupRef)

\* faulty variant: only the first match is replaced
RECURSIVE ReplaceAllString_first(_, _, _)
ReplaceAllString_first(src, k, repl) ==
    IF src = <<>> THEN <<>>
    ELSE IF regexpMatches(k, Head(src)) THEN Expand(repl) \o Tail(src)
         ELSE <<Head(src)>> \o ReplaceAllString_first(Tail(src), k, repl)

RECURSIVE ReplaceAllString(_, _, _)
ReplaceAllString(src, k, repl) ==
    IF src = <<>> THEN <<>>
    ELSE (IF regexpMatches(k, Head(src)) THEN Expand(repl)
          ELSE <<Head(src)>>)
         \o ReplaceAllString(Tail(src), k, repl)

RECURSIVE injectAppSettings(_, _, _)
injectAppSettings(xml, app_settings, order) ==
    IF order = <<>> THEN xml
    ELSE LET k == Head(order)
             v == app_settings[k]
             result == IF ~isNullOrEmpty(v)
                       THEN ReplaceAllString(xml, k, ValueString(v))
                       ELSE xml
         IN injectAppSettings(result, app_settings, Tail(order))

InjectInit ==
    /\ managed = FALSE /\ state = EmptyModel /\ op = NoOp
    /\ calls = <<>> /\ repeat = 0 /\ resps = <<>> /\ remote = {}
    /\ \E t \in Templates, m \in AppSettings :
          \E o \in RangeOrders(m) :
             fn = [name |-> "template",
                   in |-> [xml |-> t, app_settings |-> m, order |-> o],
                   out |-> t]

Inject ==
    /\ fn.name = "template"
    /\ fn' = [name |-> "injectAppSettings", in |-> fn.in,
              out |-> injectAppSettings(fn.in.xml, fn.in.app_settings,
                                        fn.in.order)]
    /\ UNCHANGED <<managed, state, op, calls, repeat, resps, remote>>

InjectNext == Inject

InjectSpec == InjectInit /\ [][InjectNext]_vars

----------------------------------------------------------------------------
(* getPolicyId.  A document is the sequence of tokens xml.Decoder.Token    *)
(* yields for it; a piece the decoder cannot parse is the token            *)
(* SyntaxError, and the end of the sequence is io.EOF.                     *)

MaxDoc == 3         \* a document has up to MaxDoc tokens

Attr(space, local, value) ==
    [Space |-> space, Local |-> local, Value |-> value]
Token(kind, attrs) == [kind |-> kind, Attr |-> attrs]
StartElement(attrs) == Token("StartElement", attrs)
EndElement == Token("EndElement", <<>>)
CharData == Token("CharData", <<>>)
ProcInst == Token("ProcInst", <<>>)
SyntaxError == Token("SyntaxError", <<>>)

AttrLists ==
    {<<>>,
     <<Attr("", "PolicyId", "p1")>>,
     <<Attr("", "TenantId", "p2")>>,
     <<Attr("", "TenantId", "p2"), Attr("", "PolicyId", "p1")>>,
     <<Attr("", "PolicyId", "p2"), Attr("", "TenantId", "p1")>>,
     <<Attr("", "PolicyId", ""), Attr("", "policyid", "p1")>>}
Tokens ==
    {ProcInst, CharData, EndElement, SyntaxError} \cup
    {StartElement(a) : a \in AttrLists}
Documents == UNION {[1..n -> Tokens] : n \in 0..MaxDoc}

\* for _, attr := range se.Attr: the last attribute called PolicyId wins
RECURSIVE policyIdOf(_, _)
policyIdOf(attrs, result) ==
    IF attrs = <<>> THEN result
    ELSE policyIdOf(Tail(attrs),
                    IF Head(attrs).Local = "PolicyId" THEN Head(attrs).Value
                    ELSE result)

\* faulty variant: an element without PolicyId does not end the scan
RECURSIVE getPolicyId_anyElement(_)
getPolicyId_anyElement(p) ==
    IF p = <<>> THEN ""
    ELSE IF Head(p).kind = "SyntaxError" THEN ""
    ELSE IF Head(p).kind = "StartElement"
            /\ policyIdOf(Head(p).Attr, "") # ""
         THEN policyIdOf(Head(p).Attr, "")
    ELSE getPolicyId_anyElement(Tail(p))

\* faulty variant: a token that fails to parse is skipped
RECURSIVE getPolicyId_skipError(_)
getPolicyId_skipError(p) ==
    IF p = <<>> THEN ""
    ELSE IF Head(p).kind = "StartElement" THEN policyIdOf(Head(p).Attr, "")
    ELSE getPolicyId_skipError(Tail(p))

RECURSIVE getPolicyId(_)
getPolicyId(p) ==
    IF p = <<>> THEN ""                                  \* io.EOF: break
    ELSE IF Head(p).kind = "SyntaxError" THEN ""         \* err != nil: break
    ELSE IF Head(p).kind = "StartElement" THEN policyIdOf(Head(p).Attr, "")
    ELSE getPolicyId(Tail(p))

PolicyIdInit ==
    /\ managed = FALSE /\ state = EmptyModel /\ op = NoOp
    /\ calls = <<>> /\ repeat = 0 /\ resps = <<>> /\ remote = {}
    /\ fn \in {[name |-> "document", in |-> p, out |-> ""] : p \in Documents}

PolicyId ==
    /\ fn.name = "document"
    /\ fn' = [name |-> "getPolicyId", in |-> fn.in, out |-> getPolicyId(fn.in)]
    /\ UNCHANGED <<managed, state, op, calls, repeat, resps, remote>>

PolicyIdNext == PolicyId

PolicyIdSpec == PolicyIdInit /\ [][PolicyIdNext]_vars

----------------------------------------------------------------------------
(* The policy-document reconciler (PolicyResource).  The template file as  *)
(* the handler finds it, the order in which the settings map is ranged     *)
(* over, the answer of the Graph API and a cancellation of the caller's    *)
(* context while the request is in flight are inputs of each handler.      *)

\* IEFPolicyModel
IEFPolicyModel(id, xml, file, app_settings, publish) ==
    [ID |-> id, XML |-> xml, File |-> file,
     AppSettings |-> app_settings, Publish |-> publish]
EmptyPolicy ==
    IEFPolicyModel(StringNull, SettingNull, SettingNull, <<>>, FALSE)

\* pieces of policy text that are XML mark-up
WithId1 == Chunk("<P PolicyId='p1'>")
WithId2 == Chunk("<P PolicyId='p2'>")
Malformed == Chunk("<")

\* xml.NewDecoder(strings.NewReader(p)): the tokens of a text
decodePiece(piece) ==
    CASE piece = WithId1 -> StartElement(<<Attr("", "PolicyId", "p1")>>)
      [] piece = WithId2 -> StartElement(<<Attr("", "PolicyId", "p2")>>)
      [] piece = Malformed -> SyntaxError
      [] OTHER -> CharData
NewDecoder(p) == [i \in DOMAIN p |-> decodePiece(p[i])]

PolicyTemplates ==
    {<<WithId1, Placeholder(settings, <<"A">>)>>,
     <<Placeholder(settings, <<"A">>), WithId1>>}
PolicySettings ==
    {(<<"A">> :> SettingValue(<<Chunk("v")>>)),
     (<<"A">> :> SettingValue(<<WithId2>>)),
     (<<"A">> :> SettingValue(<<Placeholder(settings, <<"B">>)>>))
        @@ (<<"B">> :> SettingValue(<<Chunk("v")>>))}
PolicyFiles == {SettingValue(<<>>), SettingValue(<<"f">>)}
PolicyConfigs ==
    {IEFPolicyModel(StringNull, SettingNull, f, m, p) :
        f \in PolicyFiles, m \in PolicySettings, p \in BOOLEAN}

\* what os.Stat and os.ReadFile find at the path
FileRead(exists, readable, content) ==
    [exists |-> exists, readable |-> readable, content |-> content]
NotExist == FileRead(FALSE, FALSE, <<>>)
Unreadable == FileRead(TRUE, FALSE, <<>>)
FileReads == {NotExist, Unreadable} \cup
             {FileRead(TRUE, TRUE, t) : t \in PolicyTemplates}

PlainResponse(status) == Response(status, Body(FALSE, "", FALSE))
PutResponses ==
    {TransportError, PlainResponse(StatusOK), PlainResponse(StatusCreated),
     PlainResponse(400)}
PolicyGetResponses ==
    {TransportError, PlainResponse(StatusOK), PlainResponse(404)}
PolicyDeleteResponses ==
    {TransportError, PlainResponse(StatusNoContent), PlainResponse(StatusOK)}

ErrInvalidConfig == "Invalid config"
ErrFileMissing == "File does not exist!"
ErrUploadingPolicy == "Error uploading policy"
ErrDeletingPolicy == "Error deleting ief policy"

XMLCall(method, id, body) == [kind |-> method, id |-> id, body |-> body]

\* doGraphXML: the request is built by http.NewRequest, without the
\* caller's context, so client.Do returns the answer whether or not the
\* context was canceled meanwhile
doGraphXML(canceled, answer) == answer

\* faulty variant: only 200 OK counts as a stored document
putPolicy_okOnly(canceled, answer) ==
    LET gr == doGraphXML(canceled, answer)
    IN IF gr.err THEN ErrTransport
       ELSE IF gr.StatusCode # StatusOK THEN ErrStatus
       ELSE NoError

\* putPolicy: the error it returns, NoError for nil
putPolicy(canceled, answer) ==
    LET gr == doGraphXML(canceled, answer)
    IN IF gr.err THEN ErrTransport
       ELSE IF gr.StatusCode # StatusOK /\ gr.StatusCode # StatusCreated
            THEN ErrStatus
       ELSE NoError

PolicyOutcome(name, config, prior, file, order, canceled, r) ==
    [name |-> name, config |-> config, prior |-> prior, file |-> file,
     order |-> order, canceled |-> canceled, diags |-> r.diags,
     set |-> r.set, snapshot |-> r.snapshot, removed |-> r.removed]

\* what a handler hands back: diagnostics, the snapshot it set (if any),
\* whether it removed the resource, its requests and their answers
Result(diags, set, snapshot, removed, requests, answers) ==
    [diags |-> diags, set |-> set, snapshot |-> snapshot,
     removed |-> removed, calls |-> requests, resps |-> answers]
Failed(err) == Result(<<err>>, FALSE, EmptyPolicy, FALSE, <<>>, <<>>)
NoPolicyOp ==
    PolicyOutcome("none", EmptyPolicy, EmptyPolicy, NotExist, <<>>, FALSE,
                  Result(<<>>, FALSE, EmptyPolicy, FALSE, <<>>, <<>>))

PolicyInit ==
    /\ managed = FALSE /\ state = EmptyPolicy /\ op = NoPolicyOp
    /\ calls = <<>> /\ repeat = 0 /\ resps = <<>> /\ remote = {}
    /\ fn = NoFn

\* faulty variant: the identifier is taken from the template as read
applyPolicy_idFromTemplate(data, file, order, canceled, answer) ==
    IF isNullOrEmpty(data.File) THEN Failed(ErrInvalidConfig)
    ELSE IF ~file.exists THEN Failed(ErrFileMissing)
    ELSE IF ~file.readable THEN Failed(ErrInvalidConfig)
    ELSE
      LET raw == injectAppSettings(file.content, data.AppSettings, order)
          id == getPolicyId(NewDecoder(file.content))
          snap == [data EXCEPT !.XML = SettingValue(raw),
                               !.ID = StringValue(id)]
          err == putPolicy(canceled, answer)
      IN IF data.Publish
         THEN Result(IF err = NoError THEN <<>> ELSE <<ErrUploadingPolicy>>,
                     TRUE, snap, FALSE,
                     <<XMLCall("PUT", id, raw)>>, <<answer>>)
         ELSE Result(<<>>, TRUE, snap, FALSE, <<>>, <<>>)

\* faulty variant: the document is put whatever the publish flag says
applyPolicy_alwaysPut(data, file, order, canceled, answer) ==
    IF isNullOrEmpty(data.File) THEN Failed(ErrInvalidConfig)
    ELSE IF ~file.exists THEN Failed(ErrFileMissing)
    ELSE IF ~file.readable THEN Failed(ErrInvalidConfig)
    ELSE
      LET raw == injectAppSettings(file.content, data.AppSettings, order)
          id == getPolicyId(NewDecoder(raw))
          snap == [data EXCEPT !.XML = SettingValue(raw),
                               !.ID = StringValue(id)]
          err == putPolicy(canceled, answer)
      IN Result(IF err = NoError THEN <<>> ELSE <<ErrUploadingPolicy>>,
                TRUE, snap, FALSE,
                <<XMLCall("PUT", id, raw)>>, <<answer>>)

\* faulty variant: a PUT that failed is sent a second time
applyPolicy_retryPut(data, file, order, canceled, answer) ==
    IF isNullOrEmpty(data.File) THEN Failed(ErrInvalidConfig)
    ELSE IF ~file.exists THEN Failed(ErrFileMissing)
    ELSE IF ~file.readable THEN Failed(ErrInvalidConfig)
    ELSE
      LET raw == injectAppSettings(file.content, data.AppSettings, order)
          id == getPolicyId(NewDecoder(raw))
          snap == [data EXCEPT !.XML = SettingValue(raw),
                               !.ID = StringValue(id)]
          err == putPolicy(canceled, answer)
          put == XMLCall("PUT", id, raw)
      IN IF data.Publish
         THEN IF err = NoError
              THEN Result(<<>>, TRUE, snap, FALSE, <<put>>, <<answer>>)
              ELSE Result(<<ErrUploadingPolicy>>, TRUE, snap, FALSE,
                          <<put, put>>, <<answer, answer>>)
         ELSE Result(<<>>, TRUE, snap, FALSE, <<>>, <<>>)

\* the body Create and Update share: read the file, inject, derive the
\* identifier, put when publish is set, set the state
applyPolicy(data, file, order, canceled, answer) ==
    IF isNullOrEmpty(data.File) THEN Failed(ErrInvalidConfig)
    ELSE IF ~file.exists THEN Failed(ErrFileMissing)
    ELSE IF ~file.readable THEN Failed(ErrInvalidConfig)
    ELSE
      LET raw == injectAppSettings(file.content, data.AppSettings, order)
          id == getPolicyId(NewDecoder(raw))
          snap == [data EXCEPT !.XML = SettingValue(raw),
                               !.ID = StringValue(id)]
          err == putPolicy(canceled, answer)
      IN IF data.Publish
         THEN Result(IF err = NoError THEN <<>> ELSE <<ErrUploadingPolicy>>,
                     TRUE, snap, FALSE,
                     <<XMLCall("PUT", id, raw)>>, <<answer>>)
         ELSE Result(<<>>, TRUE, snap, FALSE, <<>>, <<>>)

Removed == Result(<<>>, FALSE, EmptyPolicy, TRUE, <<>>, <<>>)

\* faulty variant: a changed injected XML is not noticed
readPolicy_noDrift(data, file, order, canceled, answer) ==
    IF ~file.exists THEN Failed(ErrFileMissing)
    ELSE IF ~file.readable THEN Failed(ErrInvalidConfig)
    ELSE
      LET raw == injectAppSettings(file.content, data.AppSettings, order)
          id == getPolicyId(NewDecoder(raw))
          gr == doGraphXML(canceled, answer)
          get == <<XMLCall("GET", id, <<>>)>>
      IN IF data.Publish
         THEN IF gr.err \/ gr.StatusCode # StatusOK
              THEN [Removed EXCEPT !.calls = get, !.resps = <<answer>>]
              ELSE Result(<<>>, TRUE, data, FALSE, get, <<answer>>)
         ELSE Result(<<>>, TRUE, data, FALSE, <<>>, <<>>)

\* faulty variant: a failed GET is reported and the state kept
readPolicy_reportFailure(data, file, order, canceled, answer) ==
    IF ~file.exists THEN Failed(ErrFileMissing)
    ELSE IF ~file.readable THEN Failed(ErrInvalidConfig)
    ELSE
      LET raw == injectAppSettings(file.content, data.AppSettings, order)
          id == getPolicyId(NewDecoder(raw))
          gr == doGraphXML(canceled, answer)
          get == <<XMLCall("GET", id, <<>>)>>
      IN IF ValueString(data.XML) # raw THEN Removed
         ELSE IF data.Publish
         THEN IF gr.err \/ gr.StatusCode # StatusOK
              THEN [Failed(ErrTransport) EXCEPT !.calls = get,
                                                !.resps = <<answer>>]
              ELSE Result(<<>>, TRUE, data, FALSE, get, <<answer>>)
         ELSE Result(<<>>, TRUE, data, FALSE, <<>>, <<>>)

\* faulty variant: a template that cannot be read counts as drift
readPolicy_missingIsDrift(data, file, order, canceled, answer) ==
    IF ~file.exists THEN Removed
    ELSE IF ~file.readable THEN Removed
    ELSE
      LET raw == injectAppSettings(file.content, data.AppSettings, order)
          id == getPolicyId(NewDecoder(raw))
          gr == doGraphXML(canceled, answer)
          get == <<XMLCall("GET", id, <<>>)>>
      IN IF ValueString(data.XML) # raw THEN Removed
         ELSE IF data.Publish
         THEN IF gr.err \/ gr.StatusCode # StatusOK
              THEN [Removed EXCEPT !.calls = get, !.resps = <<answer>>]
              ELSE Result(<<>>, TRUE, data, FALSE, get, <<answer>>)
         ELSE Result(<<>>, TRUE, data, FALSE, <<>>, <<>>)

\* Read: recompute the injected XML, compare, look the document up
readPolicy(data, file, order, canceled, answer) ==
    IF ~file.exists THEN Failed(ErrFileMissing)
    ELSE IF ~file.readable THEN Failed(ErrInvalidConfig)
    ELSE
      LET raw == injectAppSettings(file.content, data.AppSettings, order)
          id == getPolicyId(NewDecoder(raw))
          gr == doGraphXML(canceled, answer)
          get == <<XMLCall("GET", id, <<>>)>>
      IN IF ValueString(data.XML) # raw THEN Removed
         ELSE IF data.Publish
         THEN IF gr.err \/ gr.StatusCode # StatusOK
              THEN [Removed EXCEPT !.calls = get, !.resps = <<answer>>]
              ELSE Result(<<>>, TRUE, data, FALSE, get, <<answer>>)
         ELSE Result(<<>>, TRUE, data, FALSE, <<>>, <<>>)

\* Delete: delete the document when it was published
deletePolicy(data, canceled, answer) ==
    LET gr == doGraphXML(canceled, answer)
        del == <<XMLCall("DELETE", ValueString(data.ID), <<>>)>>
    IN IF data.Publish
       THEN IF gr.err \/ gr.StatusCode # StatusNoContent
            THEN [Failed(ErrDeletingPolicy) EXCEPT !.calls = del,
                                                   !.resps = <<answer>>]
            ELSE [Removed EXCEPT !.calls = del, !.resps = <<answer>>]
       ELSE Removed

\* the ids the directory stored / dropped while answering the requests
Stored(r) ==
    {r.calls[i].id : i \in {j \in DOMAIN r.calls :
        /\ r.calls[j].kind = "PUT"
        /\ ~r.resps[j].err
        /\ r.resps[j].StatusCode \in {StatusOK, StatusCreated}}}
Dropped(r) ==
    {r.calls[i].id : i \in {j \in DOMAIN r.calls :
        /\ r.calls[j].kind = "DELETE"
        /\ ~r.resps[j].err
        /\ r.resps[j].StatusCode = StatusNoContent}}

\* the framework after a handler returned r for the prior state
Persist(name, config, file, order, canceled, r) ==
    /\ op' = PolicyOutcome(name, config, state, file, order,
                           canceled /\ r.calls # <<>>, r)
    /\ calls' = r.calls
    /\ resps' = r.resps
    /\ managed' = IF r.removed THEN FALSE ELSE IF r.set THEN TRUE ELSE managed
    /\ state' = IF r.removed THEN EmptyPolicy
                ELSE IF r.set THEN r.snapshot ELSE state
    /\ remote' = (remote \cup Stored(r)) \ Dropped(r)
    /\ UNCHANGED <<repeat, fn>>

\* the inputs a handler does not get to use are not drawn: the file when
\* the path is rejected, the answer and the cancellation when no request
\* is sent
FilesFor(data) == IF isNullOrEmpty(data.File) THEN {NotExist} ELSE FileReads
AnswersFor(sent, answers) == IF sent THEN answers ELSE {TransportError}
CancelsFor(sent) == IF sent THEN BOOLEAN ELSE {FALSE}

PolicyCreate ==
    /\ ~managed
    /\ \E config \in PolicyConfigs :
         \E file \in FilesFor(config),
            order \in RangeOrders(config.AppSettings) :
           LET sent == applyPolicy(config, file, order, FALSE,
                                   TransportError).calls # <<>>
           IN \E answer \in AnswersFor(sent, PutResponses),
                 canceled \in CancelsFor(sent) :
                 Persist("Create", config, file, order, canceled,
                         applyPolicy(config, file, order, canceled, answer))

PolicyRead ==
    /\ managed
    /\ \E file \in FileReads, order \in RangeOrders(state.AppSettings) :
         LET sent == readPolicy(state, file, order, FALSE,
                                TransportError).calls # <<>>
         IN \E answer \in AnswersFor(sent, PolicyGetResponses),
               canceled \in CancelsFor(sent) :
               Persist("Read", EmptyPolicy, file, order, canceled,
                       readPolicy(state, file, order, canceled, answer))

PolicyUpdate ==
    /\ managed
    /\ \E config \in PolicyConfigs :
         \E file \in FilesFor(config),
            order \in RangeOrders(config.AppSettings) :
           LET sent == applyPolicy(config, file, order, FALSE,
                                   TransportError).calls # <<>>
           IN \E answer \in AnswersFor(sent, PutResponses),
                 canceled \in CancelsFor(sent) :
                 Persist("Update", config, file, order, canceled,
                         applyPolicy(config, file, order, canceled, answer))

PolicyDelete ==
    /\ managed
    /\ LET sent == deletePolicy(state, FALSE, TransportError).calls # <<>>
       IN \E answer \in AnswersFor(sent, PolicyDeleteResponses),
             canceled \in CancelsFor(sent) :
             Persist("Delete", EmptyPolicy, NotExist, <<>>, canceled,
                     deletePolicy(state, canceled, answer))

PolicyNext == PolicyCreate \/ PolicyRead \/ PolicyUpdate \/ PolicyDelete

PolicySpec == PolicyInit /\ [][PolicyNext]_vars

----------------------------------------------------------------------------
(* Properties *)

\* the last handler ran uploadOrGenerate: Update always does, Create does
\* once the key set was created (and then always reaches State.Set)
Decided == op.name = "Update" \/ (op.name = "Create" /\ op.set)

\* the last handler was given a configuration with an upload block
UploadConfig == ~op.config.Upload.nil /\ op.config.Generate.nil

CallsOf(kind) == {i \in 1..Len(calls) : calls[i].kind = kind}

\* the last handler posted the configured secret and usage to uploadSecret
UploadedConfiguredSecret ==
    \E i \in CallsOf("uploadSecret") :
        /\ calls[i].k = ValueString(op.config.Upload.Value)
        /\ calls[i].use = ValueString(op.config.Usage)

(* C1: every snapshot that Create, Read or Update passes to State.Set has  *)
(* a null upload.value, whatever the configuration and the inbound state,  *)
(* also when the inbound state carried a secret.                           *)
C1_PersistedSecretAbsent ==
    (op.set /\ ~op.snapshot.Upload.nil) => IsNull(op.snapshot.Upload.Value)

C1_Witness ==
    /\ op.name = "Create" /\ op.set
    /\ ~op.config.Upload.nil /\ ~IsNull(op.config.Upload.Value)
    /\ ~op.snapshot.Upload.nil

(* C2: sanitizeWriteOnlyFields(s) is s with the value of a present upload  *)
(* block nulled; version, id, name, usage and generate block are kept and  *)
(* a snapshot without upload block comes back without one.                 *)
C2_SanitizeResult ==
    fn.name = "sanitizeWriteOnlyFields" =>
        /\ fn.out.ID = fn.in.ID
        /\ fn.out.Name = fn.in.Name
        /\ fn.out.Usage = fn.in.Usage
        /\ fn.out.Generate = fn.in.Generate
        /\ fn.out.Upload.nil = fn.in.Upload.nil
        /\ fn.in.Upload.nil => fn.out = fn.in
        /\ ~fn.in.Upload.nil =>
              /\ IsNull(fn.out.Upload.Value)
              /\ fn.out.Upload.ValueVersion = fn.in.Upload.ValueVersion

C2_Witness ==
    /\ fn.name = "sanitizeWriteOnlyFields"
    /\ ~fn.in.Upload.nil
    /\ ~IsNull(fn.in.Upload.Value)
    /\ fn.in.Upload.ValueVersion = Int64Value(1)
    /\ ~fn.in.Generate.nil

(* C3: an Update whose upload block has version v >= 0, with the upload    *)
(* block in state at the same version v, issues no Graph request and adds  *)
(* no error.                                                               *)
C3_SameVersionNoCall ==
    ( /\ op.name = "Update" /\ UploadConfig
      /\ ~IsNull(op.config.Upload.ValueVersion)
      /\ ValueInt64(op.config.Upload.ValueVersion) >= 0
      /\ ~op.prior.Upload.nil
      /\ op.prior.Upload.ValueVersion = op.config.Upload.ValueVersion )
    => (calls = <<>> /\ op.diags = <<>>)

C3_Witness ==
    /\ op.name = "Update" /\ UploadConfig
    /\ op.config.Upload.ValueVersion = Int64Value(1)
    /\ ~IsNull(op.config.Upload.Value)
    /\ ~op.prior.Upload.nil
    /\ op.prior.Upload.ValueVersion = Int64Value(1)
    /\ op.set

(* C4: a Create with an upload block that has a secret and a version >= 0  *)
(* posts the configured secret to uploadSecret after creating the key set. *)
C4_CreateUploadsVersioned ==
    ( /\ op.name = "Create" /\ op.set /\ UploadConfig
      /\ ~IsNull(op.config.Upload.Value)
      /\ ~IsNull(op.config.Upload.ValueVersion)
      /\ ValueInt64(op.config.Upload.ValueVersion) >= 0 )
    => UploadedConfiguredSecret

(* C5: an Update to version v2 >= 0 from a state at version v1 >= 0,       *)
(* v1 # v2, with a secret, posts that secret and the usage to uploadSecret *)
(* exactly once, and when that succeeds sets a state with version v2.      *)
C5_ChangedVersionUploads ==
    ( /\ op.name = "Update" /\ UploadConfig
      /\ ~IsNull(op.config.Upload.Value)
      /\ ~IsNull(op.config.Upload.ValueVersion)
      /\ ValueInt64(op.config.Upload.ValueVersion) >= 0
      /\ ~op.prior.Upload.nil
      /\ ~IsNull(op.prior.Upload.ValueVersion)
      /\ ValueInt64(op.prior.Upload.ValueVersion) >= 0
      /\ op.prior.Upload.ValueVersion # op.config.Upload.ValueVersion )
    => /\ Cardinality(CallsOf("uploadSecret")) = 1
       /\ UploadedConfiguredSecret
       /\ op.diags = <<>> =>
             /\ op.set
             /\ op.snapshot.Upload.ValueVersion = op.config.Upload.ValueVersion
             /\ managed /\ state = op.snapshot

C5_Witness ==
    /\ op.name = "Update" /\ UploadConfig
    /\ op.config.Upload.Value = StringValue("s2")
    /\ op.config.Upload.ValueVersion = Int64Value(2)
    /\ ~op.prior.Upload.nil
    /\ op.prior.Upload.ValueVersion = Int64Value(1)
    /\ op.diags = <<>>
    /\ state.Upload.ValueVersion = Int64Value(2)

(* C6: with a null version and a secret, every Create (once the key set    *)
(* exists) and every Update posts the secret to uploadSecret, whatever the *)
(* state; so does each Update of a run of Updates with one configuration.  *)
C6_NullVersionAlwaysUploads ==
    ( /\ Decided /\ UploadConfig
      /\ IsNull(op.config.Upload.ValueVersion)
      /\ ~IsNull(op.config.Upload.Value) )
    => UploadedConfiguredSecret

C6_Witness ==
    /\ op.name = "Update" /\ UploadConfig
    /\ IsNull(op.config.Upload.ValueVersion)
    /\ ~IsNull(op.config.Upload.Value)
    /\ repeat >= 2
    /\ ~op.prior.Upload.nil /\ IsNull(op.prior.Upload.ValueVersion)

(* C7: with version -1 and a secret, every Create (once the key set        *)
(* exists) and every Update posts the secret to uploadSecret, whatever the *)
(* version in state, -1 included.                                          *)
C7_SentinelAlwaysUploads ==
    ( /\ Decided /\ UploadConfig
      /\ op.config.Upload.ValueVersion = Int64Value(-1)
      /\ ~IsNull(op.config.Upload.Value) )
    => UploadedConfiguredSecret

C7_Witness ==
    /\ op.name = "Update" /\ UploadConfig
    /\ op.config.Upload.ValueVersion = Int64Value(-1)
    /\ ~IsNull(op.config.Upload.Value)
    /\ ~op.prior.Upload.nil
    /\ op.prior.Upload.ValueVersion = Int64Value(-1)
    /\ repeat >= 2

(* C8: an upload block whose version is below 0 and not -1 makes the       *)
(* decision fail with the version error, and uploadSecret is not called.   *)
C8_BadVersionRejected ==
    ( /\ Decided /\ UploadConfig
      /\ ~IsNull(op.config.Upload.ValueVersion)
      /\ ValueInt64(op.config.Upload.ValueVersion) < 0
      /\ ValueInt64(op.config.Upload.ValueVersion) # -1 )
    => /\ op.diags = <<ErrVersion>>
       /\ CallsOf("uploadSecret") = {}

C8_Witness ==
    /\ op.name = "Update" /\ UploadConfig
    /\ op.config.Upload.ValueVersion = Int64Value(-2)
    /\ ~IsNull(op.config.Upload.Value)
    /\ op.diags = <<ErrVersion>>
    /\ calls = <<>>

\* the version the decision compares against: absent on Create and when
\* state has no upload block
LastPersistedVersion ==
    IF op.name = "Create" \/ op.prior.Upload.nil
    THEN Int64Null ELSE op.prior.Upload.ValueVersion

\* an upload is required: version absent, version -1, or a version >= 0
\* that differs from the last-persisted one
UploadRequired ==
    \/ IsNull(op.config.Upload.ValueVersion)
    \/ op.config.Upload.ValueVersion = Int64Value(-1)
    \/ /\ ValueInt64(op.config.Upload.ValueVersion) >= 0
       /\ op.config.Upload.ValueVersion # LastPersistedVersion

(* C9: when an upload is required and the secret is absent, the decision   *)
(* fails with the missing-value error and uploadSecret is not called.      *)
C9_RequiredUploadNeedsSecret ==
    ( /\ Decided /\ UploadConfig
      /\ UploadRequired
      /\ IsNull(op.config.Upload.Value) )
    => /\ op.diags = <<ErrNullValue>>
       /\ CallsOf("uploadSecret") = {}

(* C10: with a generate block, Create (once the key set exists) and every  *)
(* Update post usage and key type to generateKey; a run of Updates with    *)
(* one unchanged configuration posts it each time.                         *)
C10_GenerateAlways ==
    (Decided /\ ~op.config.Generate.nil /\ op.config.Upload.nil)
    => \E i \in CallsOf("generateKey") :
          /\ calls[i].use = ValueString(op.config.Usage)
          /\ calls[i].kty = ValueString(op.config.Generate.Type)

C10_Witness ==
    /\ op.name = "Update"
    /\ op.config.Generate = PolicyKeyGenerate(StringValue("RSA"))
    /\ ~op.prior.Generate.nil
    /\ repeat >= 2
    /\ CallsOf("generateKey") # {}

\* the answer to the first request of the last handler
FirstResp == resps[1]

\* the last Create got the key set created: 201 and a body with an id
KeysetCreated ==
    /\ op.name = "Create" /\ Len(resps) >= 1
    /\ ~FirstResp.err /\ FirstResp.StatusCode = StatusCreated
    /\ FirstResp.body.json /\ FirstResp.body.id # ""

(* C11: when POST keySets fails in transport or answers anything but 201,  *)
(* Create reports an error, issues no generateKey or uploadSecret request  *)
(* and sets no state: the resource stays absent.                           *)
C11_CreateFailureAborts ==
    ( /\ op.name = "Create"
      /\ (FirstResp.err \/ FirstResp.StatusCode # StatusCreated) )
    => /\ op.diags # <<>>
       /\ CallsOf("generateKey") = {} /\ CallsOf("uploadSecret") = {}
       /\ Len(calls) = 1
       /\ ~op.set /\ ~managed /\ state = EmptyModel

C11_Witness ==
    /\ op.name = "Create"
    /\ ~FirstResp.err /\ FirstResp.StatusCode = StatusOK
    /\ FirstResp.body.id = "k1"
    /\ ~op.config.Upload.nil /\ IsNull(op.config.Upload.ValueVersion)
    /\ op.diags = <<ErrStatus>> /\ ~managed

\* the provisioning step of the last handler failed: the version or the
\* missing secret was rejected, or the POST failed or answered non-200
ProvisioningFailed ==
    \/ /\ Len(resps) = 2
       /\ (resps[2].err \/ resps[2].StatusCode # StatusOK)
    \/ /\ Len(resps) = 1 /\ UploadConfig
       /\ \/ versionInvalid(op.config)
          \/ /\ IsNull(op.config.Upload.Value)
             /\ \/ IsNull(op.config.Upload.ValueVersion)
                \/ op.config.Upload.ValueVersion = Int64Value(-1)

(* C12: when the key set was created and the provisioning step fails,      *)
(* Create reports the error and still sets a state that carries the id the *)
(* Graph assigned, with a null upload.value.                               *)
C12_PartialFailurePersistsId ==
    (KeysetCreated /\ ProvisioningFailed)
    => /\ Len(op.diags) = 1
       /\ op.set /\ managed /\ state = op.snapshot
       /\ op.snapshot.ID = StringValue(FirstResp.body.id)
       /\ ~op.snapshot.Upload.nil => IsNull(op.snapshot.Upload.Value)

C12_Witness ==
    /\ KeysetCreated /\ FirstResp.body.id = "k2"
    /\ Len(resps) = 2 /\ resps[2].err
    /\ ~op.config.Upload.nil /\ ~IsNull(op.config.Upload.Value)
    /\ op.diags = <<ErrTransport>>
    /\ state.ID = StringValue("k2")

(* C13: a Read whose GET answers a non-200 status with AADB2C90073 in the  *)
(* body removes the resource from state and reports no error.              *)
C13_NotFoundRemoves ==
    ( /\ op.name = "Read" /\ ~FirstResp.err
      /\ FirstResp.StatusCode # StatusOK /\ FirstResp.body.notFound )
    => /\ op.removed /\ ~op.set /\ ~managed
       /\ op.diags = <<>>

C13_Witness ==
    /\ op.name = "Read" /\ ~FirstResp.err
    /\ FirstResp.StatusCode = 404 /\ FirstResp.body.notFound
    /\ op.removed /\ ~IsNull(op.prior.ID)

(* C14: the snapshot a successful Read sets has the version marker of the  *)
(* state it was given, the same id, name, usage and provisioning blocks,   *)
(* and a null upload.value.                                                *)
C14_ReadKeepsVersion ==
    (op.name = "Read" /\ op.set /\ op.diags = <<>>)
    => /\ op.snapshot.Upload.nil = op.prior.Upload.nil
       /\ op.snapshot.Upload.ValueVersion = op.prior.Upload.ValueVersion
       /\ IsNull(op.snapshot.Upload.Value)
       /\ op.snapshot.ID = op.prior.ID
       /\ op.snapshot.Name = op.prior.Name
       /\ op.snapshot.Usage = op.prior.Usage
       /\ op.snapshot.Generate = op.prior.Generate
       /\ state = op.snapshot

C14_Witness ==
    /\ op.name = "Read" /\ op.set /\ op.diags = <<>>
    /\ ~op.prior.Upload.nil
    /\ op.prior.Upload.ValueVersion = Int64Value(1)
    /\ ~IsNull(op.prior.Upload.Value)
    /\ state.Upload.ValueVersion = Int64Value(1)

(* C15: after a successful Update with an upload block the persisted       *)
(* version is the version of the configuration, whether the secret was     *)
(* uploaded or the Update was a no-op.                                     *)
C15_UpdatePersistsConfigVersion ==
    (op.name = "Update" /\ op.diags = <<>> /\ UploadConfig)
    => /\ op.set /\ managed /\ state = op.snapshot
       /\ ~state.Upload.nil
       /\ state.Upload.ValueVersion = op.config.Upload.ValueVersion

C15_Witness ==
    /\ op.name = "Update" /\ op.diags = <<>> /\ UploadConfig
    /\ op.config.Upload.ValueVersion = Int64Value(2)
    /\ ~op.prior.Upload.nil
    /\ op.prior.Upload.ValueVersion = Int64Value(1)
    /\ CallsOf("uploadSecret") # {}
    /\ state.Upload.ValueVersion = Int64Value(2)

(* C16: a successful Read or Update of a resource whose state carries an   *)
(* id sets a state with that same id.                                      *)
C16_IdentifierKept ==
    [][ ( /\ managed /\ ~IsNull(state.ID)
          /\ op'.name \in {"Read", "Update"}
          /\ op'.set /\ op'.diags = <<>> )
        => state'.ID = state.ID ]_vars

(* C17: every state set by Create, Read or Update holds exactly one of the *)
(* generate and upload blocks.                                             *)
C17_ExactlyOneBlock ==
    op.set => (op.snapshot.Upload.nil # op.snapshot.Generate.nil)

(* C18: a Delete given a state without id issues no request and reports no *)
(* error.                                                                  *)
C18_DeleteWithoutIdNoOp ==
    (op.name = "Delete" /\ IsNull(op.prior.ID))
    => (calls = <<>> /\ op.diags = <<>>)

\* the keys of app_settings that name the placeholder ignoring letter case
\* and carry a value to put in
NamedBy(piece, app_settings) ==
    {k \in DOMAIN app_settings :
        /\ piece.kind = "placeholder"
        /\ LowerSeq(piece.keyword) = settings
        /\ LowerSeq(k) = LowerSeq(piece.name)
        /\ ~isNullOrEmpty(app_settings[k])}
\* no two keys of app_settings are equal ignoring letter case
CaseDistinct(app_settings) ==
    \A k1, k2 \in DOMAIN app_settings :
        LowerSeq(k1) = LowerSeq(k2) => k1 = k2
\* the template with each named placeholder replaced, once, by the value as
\* it is written in app_settings
RECURSIVE Spliced(_, _)
Spliced(xml, app_settings) ==
    IF xml = <<>> THEN <<>>
    ELSE LET ks == NamedBy(Head(xml), app_settings)
         IN (IF ks # {} THEN ValueString(app_settings[CHOOSE k \in ks : TRUE])
             ELSE <<Head(xml)>>)
            \o Spliced(Tail(xml), app_settings)

(* C19: for every template and every mapping (here: whose keys are         *)
(* distinct ignoring case, so that "the value" is one value),              *)
(* injectAppSettings replaces every placeholder whose name equals a key    *)
(* with a non-empty value, ignoring the case of keyword and name, by that  *)
(* value, and leaves all other text unchanged.                             *)
C19_LiteralReplacement ==
    (fn.name = "injectAppSettings" /\ CaseDistinct(fn.in.app_settings))
    => fn.out = Spliced(fn.in.xml, fn.in.app_settings)

\* no key of app_settings equal to the placeholder's name ignoring case
\* carries a value: the name has no entry, or its value is null, unknown or
\* empty
Untouchable(piece, app_settings) ==
    /\ piece.kind = "placeholder"
    /\ \A k \in DOMAIN app_settings :
          LowerSeq(k) = LowerSeq(piece.name) => isNullOrEmpty(app_settings[k])

(* C20: every placeholder whose name has no entry in the mapping, or whose *)
(* setting value is null, unknown or empty, stands untouched in the output *)
(* between the injected text before it and the injected text after it; a   *)
(* template without placeholders is returned unchanged.                    *)
C20_SkippedUntouched ==
    fn.name = "injectAppSettings" =>
        LET xml == fn.in.xml
            m == fn.in.app_settings
            o == fn.in.order
        IN /\ \A i \in DOMAIN xml :
                Untouchable(xml[i], m) =>
                    fn.out = injectAppSettings(SubSeq(xml, 1, i - 1), m, o)
                             \o <<xml[i]>>
                             \o injectAppSettings(
                                    SubSeq(xml, i + 1, Len(xml)), m, o)
           /\ (\A i \in DOMAIN xml : xml[i].kind = "text") => fn.out = xml

\* the placeholders written inside the value of a setting
PlaceholdersOf(v) ==
    {ValueString(v)[i] : i \in {j \in DOMAIN ValueString(v) :
                                  ValueString(v)[j].kind = "placeholder"}}
\* the pieces of a text, as a set
PiecesOf(text) == {text[i] : i \in DOMAIN text}

(* C21: text inserted for one setting is not scanned again: when a         *)
(* placeholder of the template is named by a key (the keys being distinct  *)
(* ignoring case) whose value contains a placeholder, that placeholder     *)
(* stands in the output, whatever the order of the settings.               *)
C21_InsertedTextVerbatim ==
    (fn.name = "injectAppSettings" /\ CaseDistinct(fn.in.app_settings))
    => \A i \in DOMAIN fn.in.xml :
          \A k \in NamedBy(fn.in.xml[i], fn.in.app_settings) :
             PlaceholdersOf(fn.in.app_settings[k]) \subseteq PiecesOf(fn.out)

BraceFree(app_settings) ==
    \A k \in DOMAIN app_settings : PlaceholdersOf(app_settings[k]) = {}

Positions(p, kind) == {i \in DOMAIN p : p[i].kind = kind}
\* the first start element, when the decoder gets that far
FirstElement(p) ==
    LET first == CHOOSE i \in Positions(p, "StartElement") :
                     \A j \in Positions(p, "StartElement") : i <= j
    IN IF Positions(p, "StartElement") = {} THEN 0
       ELSE IF \E j \in Positions(p, "SyntaxError") : j < first THEN 0
       ELSE first
\* the value of the attribute called PolicyId, "" if there is none
AttrValue(attrs) ==
    LET ids == {i \in DOMAIN attrs : attrs[i].Local = "PolicyId"}
    IN IF ids = {} THEN ""
       ELSE attrs[CHOOSE i \in ids : \A j \in ids : j <= i].Value

(* C23: getPolicyId returns the value of the PolicyId attribute of the     *)
(* first start element and looks at no other element: the result is empty *)
(* when that element has no such attribute, whatever later elements        *)
(* carry, and empty when the document has no element.                      *)
C23_FirstElementOnly ==
    fn.name = "getPolicyId" =>
        /\ FirstElement(fn.in) # 0 =>
              fn.out = AttrValue(fn.in[FirstElement(fn.in)].Attr)
        /\ Positions(fn.in, "StartElement") = {} => fn.out = ""

\* the first element has no PolicyId, a later one has
C23_Witness ==
    /\ fn.name = "getPolicyId"
    /\ Len(fn.in) = 3
    /\ fn.in[1] = ProcInst
    /\ fn.in[2] = StartElement(<<Attr("", "TenantId", "p2")>>)
    /\ fn.in[3] = StartElement(<<Attr("", "PolicyId", "p1")>>)
    /\ fn.out = ""

(* C24: getPolicyId always returns a string; a token that fails to parse   *)
(* before the first start element ends the scan with the empty result,     *)
(* whatever follows it.                                                    *)
C24_ParseErrorEndsScan ==
    fn.name = "getPolicyId" =>
        /\ fn.out \in {"", "p1", "p2"}
        /\ (Positions(fn.in, "SyntaxError") # {} /\ FirstElement(fn.in) = 0)
              => fn.out = ""

\* a parse error with an element carrying PolicyId after it
C24_Witness ==
    /\ fn.name = "getPolicyId"
    /\ Len(fn.in) = 3
    /\ fn.in[1] = CharData
    /\ fn.in[2] = SyntaxError
    /\ fn.in[3] = StartElement(<<Attr("", "PolicyId", "p1")>>)
    /\ fn.out = ""

\* the last policy handler read the template
TemplateRead == op.file.exists /\ op.file.readable
\* the injected XML the last Read recomputed
Recomputed ==
    injectAppSettings(op.file.content, op.prior.AppSettings, op.order)

(* C25: in every snapshot a policy Create, Update or Read persists, the    *)
(* identifier is getPolicyId of the injected XML of the same snapshot, and *)
(* that XML is injectAppSettings of the template and the settings read by  *)
(* the operation.                                                          *)
C25_IdentifierDerived ==
    (op.name \in {"Create", "Update", "Read"} /\ op.set) =>
        /\ state = op.snapshot
        /\ ValueString(op.snapshot.ID) =
              getPolicyId(NewDecoder(ValueString(op.snapshot.XML)))
        /\ ValueString(op.snapshot.XML) =
              injectAppSettings(op.file.content, op.snapshot.AppSettings,
                                op.order)

\* the identifier comes out of a setting value, not out of the template
C25_Witness ==
    /\ op.name = "Update" /\ op.set
    /\ op.file.content = <<Placeholder(settings, <<"A">>), WithId1>>
    /\ op.snapshot.ID = StringValue("p2")
    /\ op.prior.ID = StringValue("p1")

(* C26: with the publish flag false, policy Create, Update, Read and       *)
(* Delete send no request to the directory.                                *)
C26_UnpublishedNoCall ==
    (\/ op.name \in {"Create", "Update"} /\ ~op.config.Publish
     \/ op.name \in {"Read", "Delete"} /\ ~op.prior.Publish)
    => calls = <<>>

\* an Update that turns publish off for a document that was put
C26_Witness ==
    /\ op.name = "Update" /\ op.set /\ ~op.config.Publish
    /\ op.prior.Publish /\ remote # {} /\ calls = <<>>

(* C27: when policy Read recomputes an injected XML that differs from the  *)
(* persisted one, it removes the resource from state, reports no error and *)
(* sends no request, whatever the publish flag.                            *)
C27_DriftRemoves ==
    (op.name = "Read" /\ TemplateRead
       /\ Recomputed # ValueString(op.prior.XML))
    => (op.removed /\ ~managed /\ op.diags = <<>> /\ calls = <<>>)

C27_Witness ==
    /\ op.name = "Read" /\ TemplateRead
    /\ Recomputed # ValueString(op.prior.XML)
    /\ op.prior.Publish /\ op.removed

(* C28: when policy Read runs with publish true and an unchanged injected  *)
(* XML, it sends one GET; a transport failure or a status other than 200   *)
(* removes the resource without an error, and a 200 keeps the persisted    *)
(* snapshot as it was.                                                     *)
C28_GetDecidesRead ==
    (op.name = "Read" /\ TemplateRead /\ op.prior.Publish
       /\ Recomputed = ValueString(op.prior.XML))
    => /\ Len(calls) = 1 /\ calls[1].kind = "GET"
       /\ op.diags = <<>>
       /\ IF resps[1].err \/ resps[1].StatusCode # StatusOK
          THEN op.removed /\ ~managed
          ELSE op.set /\ managed /\ state = op.prior

C28_Witness ==
    /\ op.name = "Read" /\ TemplateRead /\ op.prior.Publish
    /\ Recomputed = ValueString(op.prior.XML)
    /\ resps = <<TransportError>> /\ op.removed

\* the statuses the handlers take as success, per request
ExpectedStatus(kind) ==
    CASE kind = "PUT" -> {StatusOK, StatusCreated}
      [] kind = "createContainer" -> {StatusCreated}
      [] kind \in {"DELETE", "deleteContainer"} -> {StatusNoContent}
      [] OTHER -> {StatusOK}
CallFailed(i) ==
    resps[i].err \/ resps[i].StatusCode \notin ExpectedStatus(calls[i].kind)
\* no request of the last handler was sent twice, none after a failed one
SentOnce ==
    /\ Len(resps) = Len(calls)
    /\ \A i, j \in DOMAIN calls : calls[i].kind = calls[j].kind => i = j
    /\ \A i \in DOMAIN calls : CallFailed(i) => i = Len(calls)

C30_CancelAborts ==
    (op.name # "none" /\ op.canceled) =>
        /\ resps[Len(resps)].err
        /\ op.diags # <<>>
        /\ ~op.set /\ ~op.removed

\* the configuration with another secret in its upload block
SwapSecret(c, secret) == [c EXCEPT !.Upload.Value = secret]
\* the answer the provisioning request of the last handler got, if any
ProvisionAnswer(n) == IF Len(resps) >= n THEN resps[n] ELSE TransportError
\* the kinds of request in a sequence of requests
KindsOf(requests) == [i \in DOMAIN requests |-> requests[i].kind]
\* what the last Create or Update would have done and persisted, given
\* the same state and the same answers, for the configuration c2
SameRun(c2) ==
    IF op.name = "Update"
    THEN LET stateData == sanitizeLegacyState(op.prior)
             r == uploadOrGenerate(c2, c2, stateData, ProvisionAnswer(1))
         IN /\ KindsOf(r.calls) = KindsOf(calls)
            /\ op.diags = (IF r.err # NoError THEN <<r.err>> ELSE <<>>)
            /\ op.set = (r.err = NoError)
            /\ op.set => op.snapshot =
                  sanitizeWriteOnlyFields(rebuildState(c2, stateData))
    ELSE LET data == [c2 EXCEPT !.ID = StringValue(FirstResp.body.id)]
             r == uploadOrGenerate(data, data, EmptyModel, ProvisionAnswer(2))
         IN /\ <<"createContainer">> \o KindsOf(r.calls) = KindsOf(calls)
            /\ op.diags = (IF r.err # NoError THEN <<r.err>> ELSE <<>>)
            /\ op.snapshot = sanitizeWriteOnlyFields(data)

(* C31: had the last Create or Update been given a configuration that      *)
(* differs only in the (non-null) secret, with the same state and the same *)
(* answers, it would have sent the same kinds of request, reported the     *)
(* same diagnostics and persisted the same snapshot.                       *)
C31_SecretNotObserved ==
    (Decided /\ UploadConfig /\ ~IsNull(op.config.Upload.Value))
    => \A secret \in Secrets \ {StringNull} :
          SameRun(SwapSecret(op.config, secret))

\* a Create that uploaded the secret and persisted the version marker
C31_Witness ==
    /\ op.name = "Create" /\ op.set /\ op.diags = <<>>
    /\ op.config.Upload = PolicyKeyUpload(StringValue("s1"), Int64Value(-1))
    /\ CallsOf("uploadSecret") # {}
    /\ state.Upload = PolicyKeyUpload(StringNull, Int64Value(-1))

(* C32: given a snapshot with neither a generate nor an upload block,      *)
(* uploadOrGenerate returns the "no provisioning method" error and sends   *)
(* no generateKey or uploadSecret request.                                 *)
C32_NoMethodFails ==
    (fn.name = "uploadOrGenerate"
       /\ fn.in.data.Generate.nil /\ fn.in.data.Upload.nil)
    => (fn.out.err = ErrNoMethod /\ fn.out.calls = <<>>)

C32_Witness ==
    /\ fn.name = "uploadOrGenerate"
    /\ fn.in.data.Generate.nil /\ fn.in.data.Upload.nil
    /\ fn.in.data.ID = StringValue("k1")
    /\ ~fn.in.graphResp.err /\ fn.in.graphResp.StatusCode = StatusOK
    /\ fn.out.err = ErrNoMethod

\* the injected XML the last Create or Update computed
Injected ==
    injectAppSettings(op.file.content, op.config.AppSettings, op.order)

(* C33: a policy Create or Update that read its template with publish true *)
(* sends exactly one PUT, of the injected XML, keyed by the identifier      *)
(* derived from that XML; it reports no error exactly when the answer has  *)
(* status 200 or 201, and otherwise the "Error uploading policy" error     *)
(* built from what putPolicy returned: the status-and-body message for any *)
(* other status, the transport error for a failed call.                    *)
C33_PutOnceSuccessStatus ==
    (op.name \in {"Create", "Update"} /\ op.config.Publish
       /\ ~isNullOrEmpty(op.config.File) /\ TemplateRead)
    => /\ calls = <<XMLCall("PUT", getPolicyId(NewDecoder(Injected)),
                            Injected)>>
       /\ Len(resps) = 1
       /\ (op.diags = <<>>) <=>
             (~resps[1].err
                /\ resps[1].StatusCode \in {StatusOK, StatusCreated})
       /\ op.diags \in {<<>>, <<ErrUploadingPolicy>>}
       /\ resps[1].err => putPolicy(op.canceled, resps[1]) = ErrTransport
       /\ (~resps[1].err
             /\ resps[1].StatusCode \notin {StatusOK, StatusCreated})
          => putPolicy(op.canceled, resps[1]) = ErrStatus

\* a Create whose PUT was answered 201 Created
C33_Witness ==
    /\ op.name = "Create" /\ op.config.Publish
    /\ resps = <<PlainResponse(StatusCreated)>>
    /\ op.diags = <<>>
    /\ Len(calls) = 1 /\ calls[1].kind = "PUT" /\ calls[1].id = "p1"

(* C34: when the template of a policy document is missing or cannot be     *)
(* read, Create and Update report an error, send no request and leave the  *)
(* persisted state as it was; Read reports an error, sends no request and  *)
(* does not remove the resource from state.                                *)
C34_MissingTemplateFails ==
    (op.name \in {"Create", "Update", "Read"} /\ ~TemplateRead)
    => /\ op.diags # <<>>
       /\ op.diags[1] \in {ErrInvalidConfig, ErrFileMissing}
       /\ calls = <<>>
       /\ ~op.set /\ ~op.removed
       /\ state = op.prior
       /\ managed = (op.name # "Create")

\* a Read of a published document whose template is gone
C34_Witness ==
    /\ op.name = "Read" /\ op.file = NotExist
    /\ op.prior.Publish /\ remote # {}
    /\ op.diags = <<ErrFileMissing>>
    /\ managed /\ state = op.prior

(* C35: a key Read whose GET answers a status other than 200 without the   *)
(* not-found code reports the status error and does not remove the         *)
(* resource from state; a Read whose GET fails in transport reports the    *)
(* error and sets no snapshot, the state staying as it was.                *)
C35_ReadFailureReported ==
    /\ ( /\ op.name = "Read" /\ ~FirstResp.err
         /\ FirstResp.StatusCode # StatusOK /\ ~FirstResp.body.notFound )
       => /\ op.diags # <<>> /\ op.diags[1] = ErrStatus
          /\ ~op.removed /\ managed
    /\ (op.name = "Read" /\ FirstResp.err)
       => /\ op.diags = <<ErrTransport>>
          /\ ~op.set /\ ~op.removed
          /\ managed /\ state = op.prior

\* a Read answered 400 with a JSON body that lacks the code
C35_Witness ==
    /\ op.name = "Read" /\ ~FirstResp.err
    /\ FirstResp.StatusCode = 400 /\ ~FirstResp.body.notFound
    /\ op.diags = <<ErrStatus>> /\ managed
    /\ ~IsNull(state.ID)

\* the answer to the i-th request of the last handler was a success
Answered200(i) == ~resps[i].err /\ resps[i].StatusCode = StatusOK

(* C36: when Create or Update sets a snapshot whose version marker is a    *)
(* number >= 0 that the state before did not record, the handler made an   *)
(* uploadSecret request that was answered 200; so no state records a       *)
(* version whose secret was never uploaded.                                *)
C36_VersionImpliesUpload ==
    ( /\ op.name \in {"Create", "Update"} /\ op.set
      /\ ~op.snapshot.Upload.nil
      /\ ~IsNull(op.snapshot.Upload.ValueVersion)
      /\ ValueInt64(op.snapshot.Upload.ValueVersion) >= 0
      /\ op.snapshot.Upload.ValueVersion # LastPersistedVersion )
    => \E i \in CallsOf("uploadSecret") : Answered200(i)

(* C37: an Update that reports an error sets no snapshot and leaves the    *)
(* state as it was; an Update with the same configuration that follows it  *)
(* therefore decides as the failed one did: it sends the same kinds of     *)
(* requests, uploadSecret again where the failed one sent it, and fails    *)
(* validation again where the failed one did.                              *)
C37_FailedUpdateRetries ==
    [][ /\ (op'.name = "Update" /\ op'.diags # <<>>)
           => (~op'.set /\ state' = state /\ managed' = managed)
        /\ ( /\ op.name = "Update" /\ op.diags # <<>>
             /\ op'.name = "Update" /\ op'.config = op.config )
           => /\ KindsOf(calls') = KindsOf(calls)
              /\ (calls = <<>>) => (op'.diags = op.diags) ]_vars

\* the second of two Updates to version 2 of a state at version 1, the
\* upload sent again
C37_Witness ==
    /\ op.name = "Update" /\ repeat = 2
    /\ op.config.Upload.ValueVersion = Int64Value(2)
    /\ op.prior.Upload.ValueVersion = Int64Value(1)
    /\ CallsOf("uploadSecret") # {}
    /\ state = op.prior

(* C38: every generateKey and uploadSecret request of Create and Update is *)
(* addressed to a non-empty key-set id: the id the POST keySets of the     *)
(* same Create returned, or the id the state holds at Update.              *)
C38_ProvisionTargetsCreatedId ==
    op.name \in {"Create", "Update"} =>
        \A i \in CallsOf("generateKey") \cup CallsOf("uploadSecret") :
            /\ calls[i].id # ""
            /\ calls[i].id = (IF op.name = "Create" THEN FirstResp.body.id
                              ELSE ValueString(op.prior.ID))

(* C39: after a policy Delete that reported no error, none of the          *)
(* documents this resource put to the directory is still stored there.     *)
C39_DeleteLeavesNothing ==
    (op.name = "Delete" /\ op.diags = <<>>) => remote = {}

(* C40: the result of injectAppSettings is the same for every order in     *)
(* which the entries of the settings map can be visited.                   *)
C40_OrderIndependent ==
    fn.name = "injectAppSettings" =>
        \A o \in RangeOrders(fn.in.app_settings) :
            injectAppSettings(fn.in.xml, fn.in.app_settings, o) = fn.out

====
